---- MODULE Spec2Model ----
(***************************************************************************)
(* Double-entry ledger of artifact-live (MySQL application): accounts_api, *)
(* ingest_api and financials_api.  Every HTTP request opens its own        *)
(* connection (autocommit off), so the statements of a request form one    *)
(* database transaction: its INSERT/UPDATE/DELETE stay private to the      *)
(* connection until conn.commit() and are discarded by conn.rollback().    *)
(* Money is counted in cents (0.01 currency units = 1).                    *)
(***************************************************************************)
EXTENDS Integers, Sequences, FiniteSets, TLC

\* ------------------------------------------------------------------ bounds
MaxRequests == 3          \* requests started in one behaviour

MaxPartId == 3            \* no allocate request starts once this part id is used

Users == {1, 2}           \* registered users
Slots == {1, 2}           \* connections open at the same time

\* ------------------------------------------------------- program constants
NULL == 0                 \* SQL NULL / Python None in an id column
Tolerance == 1            \* 0.01 currency units, in cents

valid_types == {"ASSET", "LIABILITY", "EQUITY", "REVENUE", "EXPENSE"}

\* inputs the requests are driven with
Quantities == {0, 1, 2}
UnitCosts == {-1, 1, 50000}      \* cents: -0.01, 0.01, 500.00
AccountNames == {"", "Stock"}
AccountTypes == {"ASSET", "BOGUS"}
Subtypes == {"INVENTORY"}

VARIABLES
    accounts,          \* committed rows of table accounts
    ledger,            \* committed rows of table ledger
    inventory_layers,  \* committed rows of table inventory_layers
    nextAccountId,     \* AUTO_INCREMENT of accounts.account_id
    nextEntryId,       \* AUTO_INCREMENT of ledger.entry_id
    nextLayerId,       \* AUTO_INCREMENT of inventory_layers.layer_id
    nextUuid,          \* uuid.uuid4(): a value never handed out before
    req,               \* per connection: the handler's arguments, locals, position
    txn,               \* per connection: the uncommitted writes of its transaction
    response,          \* the response sent last: handler and HTTP status
    started,           \* number of requests started so far
    pricing_config,    \* SQLite application: rows of table pricing_config
    project_parts,     \* SQLite application: rows of table project_parts
    nextPartId,        \* AUTOINCREMENT of project_parts.part_id
    alloc              \* per connection: locals and position of an allocate request

vars == <<accounts, ledger, inventory_layers, nextAccountId, nextEntryId,
          nextLayerId, nextUuid, req, txn, response, started,
          pricing_config, project_parts, nextPartId, alloc>>

\* the tables and handler state of the SQLite application (src/backend), which
\* the handlers of the MySQL application never touch, and the reverse
backend == <<pricing_config, project_parts, nextPartId, alloc>>

db == <<accounts, ledger, inventory_layers>>
counters == <<nextAccountId, nextEntryId, nextLayerId, nextUuid>>

\* ------------------------------------------------------------ arithmetic
Abs(x) == IF x < 0 THEN 0 - x ELSE x

RECURSIVE SumF(_, _)
SumF(f, S) == IF S = {} THEN 0
              ELSE LET x == CHOOSE y \in S : TRUE
                   IN f[x] + SumF(f, S \ {x})

\* SUM(le.debit - le.credit) over a set of ledger rows
NetDebit(E) == SumF([e \in E |-> e.debit - e.credit], E)
SumDebit(E) == SumF([e \in E |-> e.debit], E)
SumCredit(E) == SumF([e \in E |-> e.credit], E)

\* --------------------------------------------------------- request state
NoReq == [op |-> "none", pc |-> "idle", user_id |-> NULL,
          quantity |-> 0, unit_cost |-> 0, layer_id |-> NULL,
          transaction_uuid |-> NULL, account_id |-> NULL,
          inventory |-> NULL, equity |-> NULL, entries |-> <<>>, i |-> 0]

NoTxn == [wAccounts |-> {}, wLedger |-> {}, wLayers |-> {},
          dLedger |-> {}, dLayers |-> {}, uAccounts |-> {}]

\* a connection of the SQLite application that serves no allocate request
NoAlloc == [pc |-> "idle", user_id |-> NULL, part_id |-> NULL, project_id |-> NULL,
            available_qty |-> 0, allocate_qty |-> 0, new_status |-> ""]

Free(s) == req[s].pc = "idle"

\* a request is served by the first free connection slot; requests in flight
\* at the same time are requests of one owner (owners share no rows)
CanStart(s, u) ==
    /\ Free(s)
    /\ \A t \in Slots : Free(t) \/ req[t].user_id = u
    /\ \A t \in Slots : t < s => ~Free(t)
    /\ started < MaxRequests

NewReq(op, u) == [NoReq EXCEPT !.op = op, !.user_id = u]

\* return jsonify(...), code: the handler ends and its connection slot is free
Respond(s, op, code) ==
    /\ req' = [req EXCEPT ![s] = NoReq]
    /\ response' = [op |-> op, status |-> code]
    /\ UNCHANGED backend

\* the handler goes on with locals r
Continue(s, r) ==
    /\ req' = [req EXCEPT ![s] = r]
    /\ UNCHANGED <<response, backend>>

\* ------------------------------------------------------------ connection
\* mysql.connector.connect(...) without autocommit=True: autocommit is off
autocommit == FALSE

ApplyAccounts(t) ==
    {IF a.account_id \in t.uAccounts THEN [a EXCEPT !.is_active = FALSE] ELSE a
        : a \in accounts} \cup t.wAccounts

ApplyLedger(t) == {e \in ledger : e.entry_id \notin t.dLedger} \cup t.wLedger

ApplyLayers(t) ==
    {l \in inventory_layers : l.layer_id \notin t.dLayers} \cup t.wLayers

Apply(t) ==
    /\ accounts' = ApplyAccounts(t)
    /\ ledger' = ApplyLedger(t)
    /\ inventory_layers' = ApplyLayers(t)

\* mutant: every statement is committed as it is executed
ExecuteAutocommit(s, t) ==
    /\ Apply(t)
    /\ txn' = [txn EXCEPT ![s] = NoTxn]

\* cursor.execute of writing statements: t is the connection's transaction after
\* them; its rows are private to the connection until commit
Execute(s, t) ==
    IF autocommit
    THEN Apply(t) /\ txn' = [txn EXCEPT ![s] = NoTxn]
    ELSE txn' = [txn EXCEPT ![s] = t] /\ UNCHANGED db

\* writing statements followed by conn.commit()
ExecuteCommit(s, t) ==
    /\ Apply(t)
    /\ txn' = [txn EXCEPT ![s] = NoTxn]

\* conn.commit()
Commit(s) == ExecuteCommit(s, txn[s])

\* mutant: the except branch commits what the transaction has written
RollbackCommits(s) ==
    /\ Apply(txn[s])
    /\ txn' = [txn EXCEPT ![s] = NoTxn]

\* conn.rollback(): the transaction's writes are discarded
Rollback(s) ==
    /\ txn' = [txn EXCEPT ![s] = NoTxn]
    /\ UNCHANGED db

\* ------------------------------------------------------------- ingest_api
\* rows of accounts matching a (type, subtype) lookup of one user
SystemAccountMatches(user_id, account_type, subtype) ==
    {a \in accounts : /\ a.user_id = user_id
                      /\ a.subtype = subtype
                      /\ a.account_type = account_type}

AccountRow(id, user_id, name, account_type, subtype, is_system) ==
    [account_id |-> id, user_id |-> user_id, account_name |-> name,
     account_type |-> account_type, subtype |-> subtype,
     is_system |-> is_system, is_active |-> TRUE]

\* create_ledger_entry: one INSERT INTO ledger
create_ledger_entry(id, user_id, account_id, transaction_uuid, description, debit, credit, reference_type, reference_id) ==
    [entry_id |-> id, user_id |-> user_id, account_id |-> account_id,
     transaction_uuid |-> transaction_uuid, description |-> description,
     debit |-> debit, credit |-> credit,
     reference_type |-> reference_type, reference_id |-> reference_id]

\* f"Capital Contribution: {item_name} ({session_source})", as a list of words
ContributionDescription == <<"Capital Contribution:", "item">>

\* mutant: the quantity is left out of the value
total_value_of_one(r) == r.unit_cost

\* total_value = quantity * unit_cost
total_value(r) == r.quantity * r.unit_cost

DebitEntry(id, r) ==
    create_ledger_entry(id, r.user_id, r.inventory, r.transaction_uuid,
                        ContributionDescription, total_value(r), 0,
                        "CAPITAL_CONTRIBUTION", r.layer_id)

\* mutant: the amount is passed in the debit position of the second entry too
CreditEntryAsDebit(id, r) ==
    create_ledger_entry(id, r.user_id, r.equity, r.transaction_uuid,
                        ContributionDescription, total_value(r), 0,
                        "CAPITAL_CONTRIBUTION", r.layer_id)

CreditEntry(id, r) ==
    create_ledger_entry(id, r.user_id, r.equity, r.transaction_uuid,
                        ContributionDescription, 0, total_value(r),
                        "CAPITAL_CONTRIBUTION", r.layer_id)

LayerRow(id, r) ==
    [layer_id |-> id, user_id |-> r.user_id,
     quantity_remaining |-> r.quantity, unit_cost |-> r.unit_cost,
     reference_type |-> "CAPITAL_CONTRIBUTION"]

\* mutant: only the quantity is validated
InvalidQuantityOnly(quantity, unit_cost) == quantity <= 0

\* if quantity <= 0 or unit_cost < 0
InvalidQuantityOrCost(quantity, unit_cost) == quantity <= 0 \/ unit_cost < 0

\* add_item, lines 178-196: the request is validated before a connection opens
AddItemInvalid(s, u, q, c) ==
    /\ CanStart(s, u)
    /\ InvalidQuantityOrCost(q, c)
    /\ Respond(s, "add_item", 400)
    /\ started' = started + 1
    /\ UNCHANGED <<db, counters, txn>>

\* add_item, lines 198-227: get_or_create_system_accounts, the inventory layer and
\* a fresh uuid.  Both SELECTs of get_or_create_system_accounts read the snapshot
\* of the connection's transaction; LIMIT 1 without ORDER BY returns any matching
\* row.
AddItemBegin(s, u, q, c) ==
    /\ CanStart(s, u)
    /\ ~InvalidQuantityOrCost(q, c)
    /\ LET invs == SystemAccountMatches(u, "ASSET", "INVENTORY")
           eqs == SystemAccountMatches(u, "EQUITY", "OWNER_CAPITAL")
           eqId == IF invs = {} THEN nextAccountId + 1 ELSE nextAccountId
           newInv == IF invs = {} THEN
                        {AccountRow(nextAccountId, u, "Inventory Asset", "ASSET",
                                    "INVENTORY", TRUE)}
                     ELSE {}
           newEq == IF eqs = {} THEN
                       {AccountRow(eqId, u, "Owner Capital", "EQUITY",
                                   "OWNER_CAPITAL", TRUE)}
                    ELSE {}
       IN /\ \E inv \in {a.account_id : a \in invs \cup newInv},
                eq \in {a.account_id : a \in eqs \cup newEq} :
                LET r == [NewReq("add_item", u) EXCEPT
                              !.pc = "debit", !.quantity = q, !.unit_cost = c,
                              !.inventory = inv, !.equity = eq,
                              !.layer_id = nextLayerId, !.transaction_uuid = nextUuid]
                IN /\ Continue(s, r)
                   /\ Execute(s, [NoTxn EXCEPT !.wAccounts = newInv \cup newEq,
                                               !.wLayers = {LayerRow(nextLayerId, r)}])
          /\ nextAccountId' = nextAccountId + Cardinality(newInv \cup newEq)
    /\ nextLayerId' = nextLayerId + 1
    /\ nextUuid' = nextUuid + 1
    /\ started' = started + 1
    /\ UNCHANGED nextEntryId

\* add_item, lines 229-234: DEBIT Inventory Asset
AddItemDebit(s) ==
    /\ req[s].op = "add_item" /\ req[s].pc = "debit"
    /\ Continue(s, [req[s] EXCEPT !.pc = "credit"])
    /\ Execute(s, [txn[s] EXCEPT !.wLedger = @ \cup {DebitEntry(nextEntryId, req[s])}])
    /\ nextEntryId' = nextEntryId + 1
    /\ UNCHANGED <<nextAccountId, nextLayerId, nextUuid, started>>

\* add_item, lines 236-262: CREDIT Owner's Equity, conn.commit(), 201
AddItemCredit(s) ==
    /\ req[s].op = "add_item" /\ req[s].pc = "credit"
    /\ Respond(s, req[s].op, 201)
    /\ ExecuteCommit(s, [txn[s] EXCEPT
                            !.wLedger = @ \cup {CreditEntry(nextEntryId, req[s])}])
    /\ nextEntryId' = nextEntryId + 1
    /\ UNCHANGED <<nextAccountId, nextLayerId, nextUuid, started>>

\* delete_item, lines 359-378: the layer of this user is looked up
DeleteItemSelect(s, u, layer_id) ==
    /\ CanStart(s, u)
    /\ LET r == [NewReq("delete_item", u) EXCEPT !.layer_id = layer_id]
           layer == {l \in inventory_layers :
                        l.layer_id = layer_id /\ l.user_id = u}
       IN IF layer_id = NULL THEN Respond(s, r.op, 400)
          ELSE IF layer = {} THEN Respond(s, r.op, 404)
          ELSE Continue(s, [r EXCEPT !.pc = "delete"])
    /\ started' = started + 1
    /\ UNCHANGED <<db, counters, txn>>

\* mutant: the DELETE removes the debit entry of the layer only
LedgerOfLayerDebitOnly(u, layer_id) ==
    {e \in ledger : /\ e.user_id = u
                    /\ e.reference_type = "CAPITAL_CONTRIBUTION"
                    /\ e.reference_id = layer_id
                    /\ e.debit > 0}

\* rows DELETE FROM ledger removes for a layer: reference_type and reference_id
LedgerOfLayer(u, layer_id) ==
    {e \in ledger : /\ e.user_id = u
                    /\ e.reference_type = "CAPITAL_CONTRIBUTION"
                    /\ e.reference_id = layer_id}

\* delete_item, lines 380-398: both DELETEs (on the rows committed at that
\* moment, which they lock), conn.commit(), 200
DeleteItemCommit(s) ==
    /\ req[s].op = "delete_item" /\ req[s].pc = "delete"
    /\ ExecuteCommit(s, [txn[s] EXCEPT
            !.dLedger = {e.entry_id : e \in LedgerOfLayer(req[s].user_id, req[s].layer_id)},
            !.dLayers = {req[s].layer_id}])
    /\ Respond(s, req[s].op, 200)
    /\ UNCHANGED <<counters, started>>

\* --------------------------------------------------------- financials_api
\* SELECT le.*, a.user_id ... JOIN accounts: in the dictionary row the account's
\* user_id replaces the ledger's column of the same name
JoinedEntries(transaction_uuid) ==
    {[e EXCEPT !.user_id = a.user_id] :
        <<e, a>> \in {p \in ledger \X accounts :
                         /\ p[1].account_id = p[2].account_id
                         /\ p[1].transaction_uuid = transaction_uuid}}

\* the rows in primary-key order
RECURSIVE ByEntryId(_)
ByEntryId(E) ==
    IF E = {} THEN <<>>
    ELSE LET first == CHOOSE e \in E : \A f \in E : e.entry_id <= f.entry_id
         IN <<first>> \o ByEntryId(E \ {first})

\* f"REVERSAL: {entry['description']}" if entry['description'] else "REVERSAL"
ReversalDescription(description) ==
    IF description # <<>> THEN <<"REVERSAL:">> \o description ELSE <<"REVERSAL">>

\* mutant: debit and credit are copied, not swapped
ReversalEntryNoSwap(id, reverse_uuid, entry) ==
    create_ledger_entry(id, NULL, entry.account_id, reverse_uuid,
                        ReversalDescription(entry.description),
                        entry.debit, entry.credit, "REVERSAL", entry.entry_id)

\* mutant: the original's reference_id is copied instead of its entry_id
ReversalEntryCopiesReference(id, reverse_uuid, entry) ==
    create_ledger_entry(id, NULL, entry.account_id, reverse_uuid,
                        ReversalDescription(entry.description),
                        entry.credit, entry.debit, "REVERSAL", entry.reference_id)

\* the INSERT of one reversing entry; the statement names no user_id column
ReversalEntry(id, reverse_uuid, entry) ==
    create_ledger_entry(id, NULL, entry.account_id, reverse_uuid,
                        ReversalDescription(entry.description),
                        entry.credit, entry.debit, "REVERSAL", entry.entry_id)

\* mutant: the owner of the fetched entries is not compared with the caller
ReverseSelectNoOwnerCheck(s, u, transaction_uuid) ==
    /\ CanStart(s, u)
    /\ LET r == NewReq("reverse_transaction", u)
           entries == ByEntryId(JoinedEntries(transaction_uuid))
           found == transaction_uuid # NULL /\ entries # <<>>
       IN /\ IF transaction_uuid = NULL THEN Respond(s, r.op, 400)
             ELSE IF entries = <<>> THEN Respond(s, r.op, 404)
             ELSE Continue(s, [r EXCEPT !.pc = "insert", !.entries = entries, !.i = 1,
                                        !.transaction_uuid = nextUuid])
          /\ nextUuid' = IF found THEN nextUuid + 1 ELSE nextUuid
    /\ started' = started + 1
    /\ UNCHANGED <<db, nextAccountId, nextEntryId, nextLayerId, txn>>

\* mutant: a transaction that some entry already reverses is refused
ReverseSelectOnce(s, u, transaction_uuid) ==
    /\ CanStart(s, u)
    /\ LET r == NewReq("reverse_transaction", u)
           entries == ByEntryId(JoinedEntries(transaction_uuid))
           reversed == \E e \in ledger :
                          /\ e.reference_type = "REVERSAL"
                          /\ \E k \in 1..Len(entries) : e.reference_id = entries[k].entry_id
           found == transaction_uuid # NULL /\ entries # <<>>
                    /\ entries[1].user_id = u /\ ~reversed
       IN /\ IF transaction_uuid = NULL THEN Respond(s, r.op, 400)
             ELSE IF entries = <<>> THEN Respond(s, r.op, 404)
             ELSE IF entries[1].user_id # u THEN Respond(s, r.op, 403)
             ELSE IF reversed THEN Respond(s, r.op, 400)
             ELSE Continue(s, [r EXCEPT !.pc = "insert", !.entries = entries, !.i = 1,
                                        !.transaction_uuid = nextUuid])
          /\ nextUuid' = IF found THEN nextUuid + 1 ELSE nextUuid
    /\ started' = started + 1
    /\ UNCHANGED <<db, nextAccountId, nextEntryId, nextLayerId, txn>>

\* reverse_transaction, lines 309-343
ReverseSelect(s, u, transaction_uuid) ==
    /\ CanStart(s, u)
    /\ LET r == NewReq("reverse_transaction", u)
           entries == ByEntryId(JoinedEntries(transaction_uuid))
           found == transaction_uuid # NULL /\ entries # <<>>
                    /\ entries[1].user_id = u
       IN /\ IF transaction_uuid = NULL THEN Respond(s, r.op, 400)
             ELSE IF entries = <<>> THEN Respond(s, r.op, 404)
             ELSE IF entries[1].user_id # u THEN Respond(s, r.op, 403)
             ELSE Continue(s, [r EXCEPT !.pc = "insert", !.entries = entries, !.i = 1,
                                        !.transaction_uuid = nextUuid])
          /\ nextUuid' = IF found THEN nextUuid + 1 ELSE nextUuid
    /\ started' = started + 1
    /\ UNCHANGED <<db, nextAccountId, nextEntryId, nextLayerId, txn>>

\* reverse_transaction, lines 345-366: one iteration of the loop
ReverseInsert(s) ==
    /\ req[s].op = "reverse_transaction" /\ req[s].pc = "insert"
    /\ req[s].i <= Len(req[s].entries)
    /\ Continue(s, [req[s] EXCEPT !.i = @ + 1])
    /\ Execute(s, [txn[s] EXCEPT !.wLedger = @ \cup
            {ReversalEntry(nextEntryId, req[s].transaction_uuid,
                           req[s].entries[req[s].i])}])
    /\ nextEntryId' = nextEntryId + 1
    /\ UNCHANGED <<nextAccountId, nextLayerId, nextUuid, started>>

\* reverse_transaction, lines 368-372: conn.commit(), 200
ReverseCommit(s) ==
    /\ req[s].op = "reverse_transaction" /\ req[s].pc = "insert"
    /\ req[s].i > Len(req[s].entries)
    /\ Commit(s)
    /\ Respond(s, req[s].op, 200)
    /\ UNCHANGED <<counters, started>>

\* a.user_id = %s AND a.account_type = <type>, joined with the ledger
EntriesOfType(u, account_type) ==
    {e \in ledger : \E a \in accounts : /\ a.account_id = e.account_id
                                        /\ a.user_id = u
                                        /\ a.account_type = account_type}

\* mutant: assets summed credit-normal, like the other two sides
total_assets_credit_normal(u) == 0 - NetDebit(EntriesOfType(u, "ASSET"))

\* COALESCE(SUM(le.debit - le.credit), 0) over ASSET accounts
total_assets(u) == NetDebit(EntriesOfType(u, "ASSET"))

\* COALESCE(SUM(le.credit - le.debit), 0) over LIABILITY accounts
total_liabilities(u) == 0 - NetDebit(EntriesOfType(u, "LIABILITY"))

\* mutant: revenue accounts are counted as equity
total_equity_and_revenue(u) ==
    0 - NetDebit(EntriesOfType(u, "EQUITY") \cup EntriesOfType(u, "REVENUE"))

\* COALESCE(SUM(le.credit - le.debit), 0) over EQUITY accounts
total_equity(u) == 0 - NetDebit(EntriesOfType(u, "EQUITY"))

get_accounting_equation(u) ==
    LET left_side == total_assets(u)
        right_side == total_liabilities(u) + total_equity(u)
    IN [assets |-> total_assets(u),
        liabilities |-> total_liabilities(u),
        equity |-> total_equity(u),
        is_balanced |-> Abs(left_side - right_side) < Tolerance,
        difference |-> left_side - right_side]

\* COALESCE(SUM(le.debit - le.credit), 0) of one account (LEFT JOIN ledger)
balance(account_id) == NetDebit({e \in ledger : e.account_id = account_id})

\* the rows of the trial balance query: active accounts of the user, HAVING
\* ABS(balance) > 0.01, with the debit and the credit column of the loop
TrialBalanceRows(u) ==
    {[account_id |-> a.account_id, account_type |-> a.account_type,
      balance |-> balance(a.account_id),
      debit |-> IF balance(a.account_id) > 0 THEN balance(a.account_id) ELSE 0,
      credit |-> IF balance(a.account_id) < 0 THEN Abs(balance(a.account_id)) ELSE 0]
        : a \in {x \in accounts : /\ x.user_id = u
                                  /\ x.is_active
                                  /\ Abs(balance(x.account_id)) > Tolerance}}

get_trial_balance(u) ==
    LET rows == TrialBalanceRows(u)
        total_debits == SumF([r \in rows |-> r.debit], rows)
        total_credits == SumF([r \in rows |-> r.credit], rows)
    IN [accounts |-> rows,
        total_debits |-> total_debits,
        total_credits |-> total_credits,
        is_balanced |-> Abs(total_debits - total_credits) < Tolerance]

\* the rows in ORDER BY le.transaction_date DESC, le.entry_id DESC: an entry
\* inserted later has the later date and the larger entry_id
RECURSIVE NewestFirst(_)
NewestFirst(E) ==
    IF E = {} THEN <<>>
    ELSE LET first == CHOOSE e \in E : \A f \in E : e.entry_id >= f.entry_id
         IN <<first>> \o NewestFirst(E \ {first})

\* one row of the ledger query: entry columns and account columns
LedgerRow(e, a) ==
    [entry_id |-> e.entry_id, transaction_uuid |-> e.transaction_uuid,
     debit |-> e.debit, credit |-> e.credit, description |-> e.description,
     reference_type |-> e.reference_type, reference_id |-> e.reference_id,
     account_id |-> a.account_id, account_name |-> a.account_name,
     account_type |-> a.account_type, subtype |-> a.subtype]

\* get_ledger: the page LIMIT limit OFFSET offset of the user's entries and
\* their total count
get_ledger(u, limit, offset) ==
    LET rows == {LedgerRow(p[1], p[2]) :
                    p \in {q \in ledger \X accounts :
                              /\ q[1].account_id = q[2].account_id
                              /\ q[2].user_id = u}}
        sorted == NewestFirst(rows)
        last == IF offset + limit < Len(sorted) THEN offset + limit ELSE Len(sorted)
    IN [entries |-> SubSeq(sorted, offset + 1, last),
        total_count |-> Cardinality(rows),
        limit |-> limit,
        offset |-> offset]

\* the rows of one section of the balance sheet: accounts of the user of one
\* type (active or not) HAVING ABS(balance) > 0.01; sign is 1 for debit - credit
\* and -1 for credit - debit.  account_id keeps the rows of two accounts apart.
BalanceSheetRows(u, account_type, sign) ==
    {[account_id |-> a.account_id, account_name |-> a.account_name,
      subtype |-> a.subtype, balance |-> sign * balance(a.account_id)]
        : a \in {x \in accounts : /\ x.user_id = u
                                  /\ x.account_type = account_type
                                  /\ Abs(balance(x.account_id)) > Tolerance}}

get_balance_sheet(u) ==
    LET assets == BalanceSheetRows(u, "ASSET", 1)
        liabilities == BalanceSheetRows(u, "LIABILITY", -1)
        equity == BalanceSheetRows(u, "EQUITY", -1)
        sum_assets == SumF([r \in assets |-> r.balance], assets)
        sum_liabilities == SumF([r \in liabilities |-> r.balance], liabilities)
        sum_equity == SumF([r \in equity |-> r.balance], equity)
    IN [assets |-> assets, total_assets |-> sum_assets,
        liabilities |-> liabilities, total_liabilities |-> sum_liabilities,
        equity |-> equity, total_equity |-> sum_equity,
        total_liabilities_and_equity |-> sum_liabilities + sum_equity,
        is_balanced |->
            Abs(sum_assets - (sum_liabilities + sum_equity)) < Tolerance]

\* a GET handler of financials_api: its SELECTs, then jsonify(body); a
\* statement that raises Error gives 500.  Nothing but the response changes.
Read(op, u, body) ==
    /\ \/ response' = [op |-> op, status |-> 200, user_id |-> u, body |-> body]
       \/ response' = [op |-> op, status |-> 500, user_id |-> u, body |-> <<>>]
    /\ UNCHANGED <<db, counters, req, txn, started, backend>>

GetAccountingEquation(u) == Read("get_accounting_equation", u, get_accounting_equation(u))

GetLedger(u, limit, offset) == Read("get_ledger", u, get_ledger(u, limit, offset))

\* mutant: accounts without a balance worth listing are deactivated on the way
GetTrialBalanceHidesTrivial(u) ==
    /\ response' = [op |-> "get_trial_balance", status |-> 200, user_id |-> u,
                    body |-> get_trial_balance(u)]
    /\ accounts' = {IF a.user_id = u /\ Abs(balance(a.account_id)) <= Tolerance
                       THEN [a EXCEPT !.is_active = FALSE] ELSE a : a \in accounts}
    /\ UNCHANGED <<ledger, inventory_layers, counters, req, txn, started, backend>>

GetTrialBalance(u) == Read("get_trial_balance", u, get_trial_balance(u))

GetBalanceSheet(u) == Read("get_balance_sheet", u, get_balance_sheet(u))

\* ----------------------------------------------------------- accounts_api
\* mutant: the name check also counts deactivated accounts
CreateAccountCheckAnyHolder(s, u, account_name, account_type, subtype) ==
    /\ CanStart(s, u)
    /\ LET r == NewReq("create_account", u)
           taken == \E a \in accounts : /\ a.user_id = u
                                        /\ a.account_name = account_name
           ok == account_name # "" /\ account_type \in valid_types /\ ~taken
       IN /\ IF ok
             THEN Continue(s, [r EXCEPT !.pc = "commit", !.account_id = nextAccountId])
             ELSE Respond(s, r.op, 400)
          /\ IF ok
             THEN Execute(s, [NoTxn EXCEPT !.wAccounts =
                        {AccountRow(nextAccountId, u, account_name, account_type,
                                    subtype, FALSE)}])
             ELSE UNCHANGED <<db, txn>>
          /\ nextAccountId' = IF ok THEN nextAccountId + 1 ELSE nextAccountId
    /\ started' = started + 1
    /\ UNCHANGED <<nextEntryId, nextLayerId, nextUuid>>

\* create_account, lines 66-103: validation, the name check, the INSERT
CreateAccountCheck(s, u, account_name, account_type, subtype) ==
    /\ CanStart(s, u)
    /\ LET r == NewReq("create_account", u)
           taken == \E a \in accounts : /\ a.user_id = u
                                        /\ a.account_name = account_name
                                        /\ a.is_active
           ok == account_name # "" /\ account_type \in valid_types /\ ~taken
       IN /\ IF ok
             THEN Continue(s, [r EXCEPT !.pc = "commit", !.account_id = nextAccountId])
             ELSE Respond(s, r.op, 400)
          /\ IF ok
             THEN Execute(s, [NoTxn EXCEPT !.wAccounts =
                        {AccountRow(nextAccountId, u, account_name, account_type,
                                    subtype, FALSE)}])
             ELSE UNCHANGED <<db, txn>>
          /\ nextAccountId' = IF ok THEN nextAccountId + 1 ELSE nextAccountId
    /\ started' = started + 1
    /\ UNCHANGED <<nextEntryId, nextLayerId, nextUuid>>

\* create_account, lines 104-116: conn.commit(), 201
CreateAccountCommit(s) ==
    /\ req[s].op = "create_account" /\ req[s].pc = "commit"
    /\ Commit(s)
    /\ Respond(s, req[s].op, 201)
    /\ UNCHANGED <<counters, started>>

\* mutant: the account is looked up by its id alone
DeleteAccountSelectAnyOwner(s, u, account_id) ==
    /\ CanStart(s, u)
    /\ LET r == [NewReq("delete_account", u) EXCEPT !.account_id = account_id]
           account == {a \in accounts : a.account_id = account_id}
       IN IF account = {} THEN Respond(s, r.op, 404)
          ELSE IF \E a \in account : a.is_system THEN Respond(s, r.op, 400)
          ELSE Continue(s, [r EXCEPT !.pc = "update"])
    /\ started' = started + 1
    /\ UNCHANGED <<db, counters, txn>>

\* mutant: is_system is not looked at
DeleteAccountSelectAnyAccount(s, u, account_id) ==
    /\ CanStart(s, u)
    /\ LET r == [NewReq("delete_account", u) EXCEPT !.account_id = account_id]
           account == {a \in accounts : a.account_id = account_id /\ a.user_id = u}
       IN IF account = {} THEN Respond(s, r.op, 404)
          ELSE Continue(s, [r EXCEPT !.pc = "update"])
    /\ started' = started + 1
    /\ UNCHANGED <<db, counters, txn>>

\* delete_account, lines 127-148: ownership and is_system
DeleteAccountSelect(s, u, account_id) ==
    /\ CanStart(s, u)
    /\ LET r == [NewReq("delete_account", u) EXCEPT !.account_id = account_id]
           account == {a \in accounts : a.account_id = account_id /\ a.user_id = u}
       IN IF account = {} THEN Respond(s, r.op, 404)
          ELSE IF \E a \in account : a.is_system THEN Respond(s, r.op, 400)
          ELSE Continue(s, [r EXCEPT !.pc = "update"])
    /\ started' = started + 1
    /\ UNCHANGED <<db, counters, txn>>

\* delete_account, lines 150-161: UPDATE is_active = FALSE, conn.commit(), 200
DeleteAccountCommit(s) ==
    /\ req[s].op = "delete_account" /\ req[s].pc = "update"
    /\ ExecuteCommit(s, [txn[s] EXCEPT !.uAccounts = {req[s].account_id}])
    /\ Respond(s, req[s].op, 200)
    /\ UNCHANGED <<counters, started>>

\* every handler: a statement raised Error: conn.rollback(), 500
RequestError(s) ==
    /\ ~Free(s)
    /\ Rollback(s)
    /\ Respond(s, req[s].op, 500)
    /\ UNCHANGED <<counters, started>>

\* ------------------------------------------------------------------ system
Init ==
    /\ accounts = {}
    /\ ledger = {}
    /\ inventory_layers = {}
    /\ nextAccountId = 1
    /\ nextEntryId = 1
    /\ nextLayerId = 1
    /\ nextUuid = 1
    /\ req = [s \in Slots |-> NoReq]
    /\ txn = [s \in Slots |-> NoTxn]
    /\ response = [op |-> "none", status |-> 0]
    /\ started = 0
    /\ pricing_config = {}
    /\ project_parts = {}
    /\ nextPartId = 1
    /\ alloc = [s \in Slots |-> NoAlloc]

\* current_user.id of a new request; owners are interchangeable, so the first
\* request is owner 1's
StartUsers == IF started = 0 THEN {1} ELSE Users

Next ==
    \/ \E s \in Slots, u \in StartUsers, q \in Quantities, c \in UnitCosts :
          AddItemInvalid(s, u, q, c)
    \/ \E s \in Slots, u \in StartUsers, q \in Quantities, c \in UnitCosts :
          AddItemBegin(s, u, q, c)
    \/ \E s \in Slots : AddItemDebit(s)
    \/ \E s \in Slots : AddItemCredit(s)
    \/ \E s \in Slots, u \in StartUsers, l \in 0..(nextLayerId - 1) :
          DeleteItemSelect(s, u, l)
    \/ \E s \in Slots : DeleteItemCommit(s)
    \/ \E s \in Slots, u \in StartUsers, t \in 0..nextUuid : ReverseSelect(s, u, t)
    \/ \E s \in Slots : ReverseInsert(s)
    \/ \E s \in Slots : ReverseCommit(s)
    \/ \E s \in Slots, u \in StartUsers, n \in AccountNames, t \in AccountTypes,
          st \in Subtypes : CreateAccountCheck(s, u, n, t, st)
    \/ \E s \in Slots : CreateAccountCommit(s)
    \/ \E s \in Slots, u \in StartUsers, a \in 1..nextAccountId :
          DeleteAccountSelect(s, u, a)
    \/ \E s \in Slots : DeleteAccountCommit(s)
    \/ \E s \in Slots : RequestError(s)

Spec == Init /\ [][Next]_vars

\* ------------------------------------------------- the statements as functions
\* what the GET handlers are given: query arguments and table contents.  A chart
\* of accounts of every type for owner 1 (one of them active or deactivated), an
\* account of owner 2, and any subset of eight entries on them.
Limits == {1, 100}
Offsets == {0, 1}

StatementAccounts(loan_active) ==
    {AccountRow(1, 1, "Inventory Asset", "ASSET", "INVENTORY", TRUE),
     AccountRow(2, 1, "Owner Capital", "EQUITY", "OWNER_CAPITAL", TRUE),
     [AccountRow(3, 1, "Loan", "LIABILITY", "", FALSE) EXCEPT !.is_active = loan_active],
     AccountRow(4, 1, "Sales Revenue", "REVENUE", "SALES", FALSE),
     AccountRow(5, 1, "Fees Expense", "EXPENSE", "FEES", FALSE),
     AccountRow(6, 2, "Inventory Asset", "ASSET", "INVENTORY", TRUE)}

StatementEntry(id, user_id, account_id, debit, credit) ==
    create_ledger_entry(id, user_id, account_id, id, <<"entry">>, debit, credit,
                        "MANUAL", NULL)

StatementEntries ==
    {StatementEntry(1, 1, 1, 50000, 0), StatementEntry(2, 1, 1, 0, 1),
     StatementEntry(3, 1, 2, 0, 50000), StatementEntry(4, 1, 2, 1, 0),
     StatementEntry(5, 1, 3, 0, 2), StatementEntry(6, 1, 4, 0, 2),
     StatementEntry(7, 1, 5, 2, 0), StatementEntry(8, 2, 6, 2, 0)}

InitStatements ==
    /\ accounts \in {StatementAccounts(b) : b \in BOOLEAN}
    /\ ledger \in SUBSET StatementEntries
    /\ inventory_layers = {}
    /\ nextAccountId = 7
    /\ nextEntryId = 9
    /\ nextLayerId = 1
    /\ nextUuid = 9
    /\ req = [s \in Slots |-> NoReq]
    /\ txn = [s \in Slots |-> NoTxn]
    /\ response = [op |-> "none", status |-> 0]
    /\ started = 0
    /\ pricing_config = {}
    /\ project_parts = {}
    /\ nextPartId = 1
    /\ alloc = [s \in Slots |-> NoAlloc]

NextStatements ==
    \/ \E u \in Users : GetAccountingEquation(u)
    \/ \E u \in Users, limit \in Limits, offset \in Offsets : GetLedger(u, limit, offset)
    \/ \E u \in Users : GetTrialBalance(u)
    \/ \E u \in Users : GetBalanceSheet(u)

SpecStatements == InitStatements /\ [][NextStatements]_vars

\* ------------------------------------------- backend/routes/pricing.py
\* A JSON or SQL value: a number (rates and amounts in units of 0.0001, so
\* 0.1315 = 1315, 1 = 10000 and $8.00 = 80000), the float NaN, which json.loads
\* accepts and for which every comparison is false, a value that is no number,
\* Python None, or SQL NULL.
Num(n) == [kind |-> "num", n |-> n]
NaN == [kind |-> "nan", n |-> 0]
Text == [kind |-> "str", n |-> 0]
None == [kind |-> "none", n |-> 0]
SqlNull == [kind |-> "null", n |-> 0]

One == 10000              \* 1.0 in units of 0.0001

\* value < n and n <= value of Python floats
Lt(v, n) == v.kind = "num" /\ v.n < n
Ge(v, n) == v.kind = "num" /\ v.n >= n

\* isinstance(value, (int, float))
IsNumber(v) == v.kind \in {"num", "nan"}

valid_keys ==
    {"ebay_final_value_fee", "ebay_payment_processing", "ebay_payment_fixed",
     "ebay_promoted_listing", "shipping_estimate_light", "shipping_estimate_medium",
     "shipping_estimate_heavy"}

percentage_keys ==
    {"ebay_final_value_fee", "ebay_payment_processing", "ebay_promoted_listing"}

\* register_user_api: the options a new user starts with
default_config ==
    [k \in valid_keys |->
        CASE k = "ebay_final_value_fee" -> 1315
          [] k = "ebay_payment_processing" -> 290
          [] k = "ebay_payment_fixed" -> 3000
          [] k = "ebay_promoted_listing" -> 0
          [] k = "shipping_estimate_light" -> 80000
          [] k = "shipping_estimate_medium" -> 150000
          [] k = "shipping_estimate_heavy" -> 250000]

ConfigRow(user_id, config_key, config_value) ==
    [user_id |-> user_id, config_key |-> config_key, config_value |-> config_value]

\* the response of a handler of the SQLite application
BackendResponse(op, u, code, body) ==
    [op |-> op, status |-> code, user_id |-> u, body |-> body]

\* the handlers of the SQLite application leave the MySQL application alone
LedgerUnchanged == UNCHANGED <<db, counters, req, txn, started>>

\* POST /api/register: the user row, then the default pricing options (and the
\* default accounts of the SQLite application), then conn.commit()
register_user_api(u) ==
    /\ \A r \in pricing_config : r.user_id # u
    /\ pricing_config' = pricing_config \cup
          {ConfigRow(u, k, Num(default_config[k])) : k \in valid_keys}
    /\ response' = BackendResponse("register_user_api", u, 200, <<>>)
    /\ UNCHANGED <<project_parts, nextPartId, alloc>>
    /\ LedgerUnchanged

\* mutant: only percentages are range-checked
ValidValueAmountsUnchecked(key, value) ==
    /\ IsNumber(value)
    /\ key \in percentage_keys => (Ge(value, 0) /\ value.n <= One)

\* the value of one item of the request passes the checks of the loop:
\* isinstance(value, (int, float)), then not (0 <= value <= 1) rejects a
\* percentage and value < 0 rejects an amount
ValidValue(key, value) ==
    /\ IsNumber(value)
    /\ IF key \in percentage_keys
       THEN Ge(value, 0) /\ value.n <= One
       ELSE ~Lt(value, 0)

\* sqlite3 binds a float NaN as NULL
Bind(value) == IF value.kind = "nan" THEN SqlNull ELSE value

\* PUT /api/pricing-config with JSON body data (a function from keys to values):
\* 400 for an empty body, an unknown key or a value failing its check; otherwise
\* one UPDATE per item and conn.commit().  A statement that raises gives 500, and
\* the connection is dropped with nothing committed.
update_pricing_config(u, data) ==
    /\ LedgerUnchanged
    /\ UNCHANGED <<project_parts, nextPartId, alloc>>
    /\ IF \/ DOMAIN data = {}
          \/ DOMAIN data \ valid_keys # {}
          \/ \E k \in DOMAIN data : ~ValidValue(k, data[k])
       THEN /\ response' = BackendResponse("update_pricing_config", u, 400, <<>>)
            /\ UNCHANGED pricing_config
       ELSE \/ /\ pricing_config' =
                     {IF r.user_id = u /\ r.config_key \in DOMAIN data
                         THEN [r EXCEPT !.config_value = Bind(data[r.config_key])]
                         ELSE r : r \in pricing_config}
               /\ response' = BackendResponse("update_pricing_config", u, 200, <<>>)
            \/ /\ response' = BackendResponse("update_pricing_config", u, 500, <<>>)
               /\ UNCHANGED pricing_config

\* request bodies: up to two items over two recognised keys and an unknown one
BodyKeys == {"ebay_final_value_fee", "shipping_estimate_light", "max_price"}
BodyValues == {Num(-1), Num(0), Num(One), Num(One + 1), NaN, Text}
Bodies ==
    UNION {[K -> BodyValues] : K \in {L \in SUBSET BodyKeys : Cardinality(L) <= 2}}

NextPricing ==
    \/ \E u \in Users : register_user_api(u)
    \/ \E u \in Users, data \in Bodies : update_pricing_config(u, data)

SpecPricing == Init /\ [][NextPricing]_vars

\* ---------------------------------------------------- calculate_fees
\* get_user_pricing_config: the user's rows as a dict config_key -> config_value
get_user_pricing_config(u) ==
    LET keys == {r.config_key : r \in {x \in pricing_config : x.user_id = u}}
    IN [k \in keys |->
          (CHOOSE r \in pricing_config : r.user_id = u /\ r.config_key = k).config_value]

\* config.get(key, default)
Get(config, key, default) == IF key \in DOMAIN config THEN config[key] ELSE Num(default)

\* round(x, 2) of an amount x counted in units of 0.000001 (the product of a
\* price in cents and a rate in units of 0.0001): the nearest cent, a tie going
\* to the even cent; the result is in cents
Cent == 10000
PerAmount == 100          \* units of 0.000001 in one unit of 0.0001
Round2(x) ==
    LET q == x \div Cent
        r == x % Cent
    IN IF 2 * r < Cent THEN q
       ELSE IF 2 * r > Cent THEN q + 1
       ELSE IF q % 2 = 0 THEN q ELSE q + 1

Breakdown(listing_price, final_value_fee, payment_processing_fee, payment_fixed_fee, promoted_listing_fee, total_fees, shipping_estimate, net_after_fees, net_after_shipping) ==
    [listing_price |-> listing_price,
     final_value_fee |-> final_value_fee,
     payment_processing_fee |-> payment_processing_fee,
     payment_fixed_fee |-> payment_fixed_fee,
     promoted_listing_fee |-> promoted_listing_fee,
     total_fees |-> total_fees,
     shipping_estimate |-> shipping_estimate,
     net_after_fees |-> net_after_fees,
     net_after_shipping |-> net_after_shipping,
     raises |-> FALSE]

\* the arithmetic of calculate_fees on a number price (in cents) and number options; an
\* option that is None makes price * rate raise TypeError
Fees(price, config, weight_class) ==
    LET final_value_rate == Get(config, "ebay_final_value_fee", 1315)
        processing_rate == Get(config, "ebay_payment_processing", 290)
        fixed_fee == Get(config, "ebay_payment_fixed", 3000)
        promoted_rate == Get(config, "ebay_promoted_listing", 0)
        light == Get(config, "shipping_estimate_light", 80000)
        medium == Get(config, "shipping_estimate_medium", 150000)
        heavy == Get(config, "shipping_estimate_heavy", 250000)
        shipping_estimate == CASE weight_class = "light" -> light
                               [] weight_class = "heavy" -> heavy
                               [] OTHER -> medium
        used == {final_value_rate, processing_rate, fixed_fee, promoted_rate,
                 shipping_estimate}
        final_value_fee == price.n * final_value_rate.n
        payment_processing_fee == price.n * processing_rate.n
        promoted_listing_fee == price.n * promoted_rate.n
        total_fees == final_value_fee + payment_processing_fee + fixed_fee.n * PerAmount
                         + promoted_listing_fee
        net_after_fees == price.n * Cent - total_fees
        net_after_shipping == net_after_fees - shipping_estimate.n * PerAmount
    IN IF \E v \in used : v.kind # "num"
       THEN [Breakdown(0, 0, 0, 0, 0, 0, 0, 0, 0) EXCEPT !.raises = TRUE]
       ELSE Breakdown(Round2(price.n * Cent), Round2(final_value_fee),
                      Round2(payment_processing_fee), Round2(fixed_fee.n * PerAmount),
                      Round2(promoted_listing_fee), Round2(total_fees),
                      Round2(shipping_estimate.n * PerAmount), Round2(net_after_fees),
                      Round2(net_after_shipping))

\* mutant: only a missing or negative price short-circuits
calculate_fees_negative_only(price, config, weight_class) ==
    IF price = None \/ Lt(price, 0)
    THEN Breakdown(0, 0, 0, 0, 0, 0, 0, 0, 0)
    ELSE Fees(price, config, weight_class)

\* calculate_fees(price, config, weight_class): if price is None or price <= 0
\* the all-zero breakdown, otherwise the fees of the price
calculate_fees(price, config, weight_class) ==
    IF price = None \/ Lt(price, 1)
    THEN Breakdown(0, 0, 0, 0, 0, 0, 0, 0, 0)
    ELSE Fees(price, config, weight_class)

\* a call of calculate_fees for user u, as the estimate handlers make it
\* after get_user_pricing_config; the response records the call and its result
CalculateFees(u, price, weight_class) ==
    /\ response' = BackendResponse("calculate_fees", u, 200,
          [price |-> price, weight_class |-> weight_class,
           breakdown |-> calculate_fees(price, get_user_pricing_config(u), weight_class)])
    /\ UNCHANGED backend
    /\ LedgerUnchanged

\* what calculate_fees is given: prices in cents (None, -$10, zero, one cent,
\* $10, $19.99), weight classes, and configs of user 1 in which three
\* options are missing, at their default, at another value or NULL
Prices == {None, Num(-1000), Num(0), Num(1), Num(1000), Num(1999)}
WeightClasses == {"light", "medium", "heavy", "bogus"}
VariedKeys == {"ebay_final_value_fee", "ebay_payment_fixed", "shipping_estimate_light"}
OptionValues(k) == {Num(default_config[k]), Num(2500), SqlNull}

FeeConfigs ==
    UNION {[K -> UNION {OptionValues(k) : k \in VariedKeys}] : K \in SUBSET VariedKeys}

InitFees ==
    /\ \E c \in FeeConfigs :
          /\ \A k \in DOMAIN c : c[k] \in OptionValues(k)
          /\ pricing_config =
                {ConfigRow(1, k, c[k]) : k \in DOMAIN c} \cup
                {ConfigRow(1, k, Num(default_config[k])) : k \in valid_keys \ VariedKeys}
    /\ accounts = {}
    /\ ledger = {}
    /\ inventory_layers = {}
    /\ nextAccountId = 1
    /\ nextEntryId = 1
    /\ nextLayerId = 1
    /\ nextUuid = 1
    /\ req = [s \in Slots |-> NoReq]
    /\ txn = [s \in Slots |-> NoTxn]
    /\ response = [op |-> "none", status |-> 0]
    /\ started = 0
    /\ project_parts = {}
    /\ nextPartId = 1
    /\ alloc = [s \in Slots |-> NoAlloc]

NextFees ==
    \E u \in Users, price \in Prices, weight_class \in WeightClasses :
        CalculateFees(u, price, weight_class)

SpecFees == InitFees /\ [][NextFees]_vars

\* --------------------------------------------- backend/routes/parts.py
\* a row of project_parts with the user_id of its subsection (the JOIN of the
\* handler); project_id NULL is a loose part.  custom_name stands for the
\* descriptive columns a split copies to the new row.
PartRow(part_id, user_id, project_id, quantity, status, custom_name) ==
    [part_id |-> part_id, user_id |-> user_id, project_id |-> project_id,
     quantity |-> quantity, status |-> status, custom_name |-> custom_name]

\* table projects: two projects of user 1, one of user 2
projects ==
    {[project_id |-> 1, user_id |-> 1], [project_id |-> 2, user_id |-> 1],
     [project_id |-> 3, user_id |-> 2]}

\* mutant: a quantity above the available one is not rejected
QuantityErrorNoUpperCheck(allocate_qty, available_qty) == allocate_qty < 1

\* if allocate_qty < 1 ... if allocate_qty > available_qty: 400
QuantityError(allocate_qty, available_qty) ==
    allocate_qty < 1 \/ allocate_qty > available_qty

\* POST /api/parts/<part_id>/allocate up to the writes: the body is read, the
\* loose part of the user and the project of the user are selected and the
\* quantity is checked; each SELECT reads the committed tables.  requested_qty
\* is None or an integer.  The request is served by the first free connection.
AllocateSelect(s, u, part_id, project_id, requested_qty, staged) ==
    /\ alloc[s].pc = "idle"
    /\ \A t \in Slots : t < s => alloc[t].pc # "idle"
    /\ nextPartId <= MaxPartId
    /\ LET part_row == {r \in project_parts :
                           r.part_id = part_id /\ r.project_id = NULL /\ r.user_id = u}
           part_data == CHOOSE r \in part_row : TRUE
           available_qty == IF part_data.quantity = 0 THEN 1 ELSE part_data.quantity
           allocate_qty == IF requested_qty = None THEN available_qty ELSE requested_qty.n
           project == {p \in projects : p.project_id = project_id /\ p.user_id = u}
           answer(code) ==
               /\ response' = BackendResponse("allocate_part_to_project", u, code, <<>>)
               /\ UNCHANGED alloc
       IN IF project_id = NULL THEN answer(400)
          ELSE IF part_row = {} THEN answer(404)
          ELSE IF QuantityError(allocate_qty, available_qty) THEN answer(400)
          ELSE IF project = {} THEN answer(404)
          ELSE /\ alloc' = [alloc EXCEPT ![s] =
                      [pc |-> "write", user_id |-> u, part_id |-> part_id,
                       project_id |-> project_id, available_qty |-> available_qty,
                       allocate_qty |-> allocate_qty,
                       new_status |-> IF staged THEN "STAGED" ELSE "ALLOCATED"]]
               /\ UNCHANGED response
    /\ UNCHANGED <<pricing_config, project_parts, nextPartId>>
    /\ LedgerUnchanged

\* the writes of the handler and conn.commit(): the whole row moves to the
\* project when everything is allocated; otherwise the row is set to the
\* quantity remaining of the quantity read before, and a new row takes the
\* allocated quantity.  Both UPDATEs select by part_id alone.
AllocateWrite(s) ==
    /\ alloc[s].pc = "write"
    /\ LET a == alloc[s]
           part_data == CHOOSE r \in project_parts : r.part_id = a.part_id
           remaining_qty == a.available_qty - a.allocate_qty
       IN IF a.allocate_qty = a.available_qty
          THEN /\ project_parts' =
                     {IF r.part_id = a.part_id
                         THEN [r EXCEPT !.project_id = a.project_id, !.status = a.new_status]
                         ELSE r : r \in project_parts}
               /\ UNCHANGED nextPartId
          ELSE /\ project_parts' =
                     {IF r.part_id = a.part_id
                         THEN [r EXCEPT !.quantity = remaining_qty]
                         ELSE r : r \in project_parts}
                     \cup {PartRow(nextPartId, a.user_id, a.project_id, a.allocate_qty,
                                   a.new_status, part_data.custom_name)}
               /\ nextPartId' = nextPartId + 1
    /\ alloc' = [alloc EXCEPT ![s] = NoAlloc]
    /\ response' = BackendResponse("allocate_part_to_project", alloc[s].user_id, 200, <<>>)
    /\ UNCHANGED pricing_config
    /\ LedgerUnchanged

\* except Exception: 500; the connection is dropped and nothing is committed
AllocateError(s) ==
    /\ alloc[s].pc = "write"
    /\ alloc' = [alloc EXCEPT ![s] = NoAlloc]
    /\ response' = BackendResponse("allocate_part_to_project", alloc[s].user_id, 500, <<>>)
    /\ UNCHANGED <<pricing_config, project_parts, nextPartId>>
    /\ LedgerUnchanged

\* the loose parts the requests work on: part 1 of user 1 with 1 to 3 pieces,
\* part 2 of user 2 with 1 piece; part ids of the requests: the two parts and
\* the first row a split creates
MaxQuantity == 3
RequestedQuantities == {None} \cup {Num(q) : q \in 0..(MaxQuantity + 1)}
ProjectIds == {NULL, 1, 2, 3}
PartIds == {1, 2, 3}

InitParts ==
    /\ \E n \in 1..MaxQuantity :
          project_parts = {PartRow(1, 1, NULL, n, "IN_SYSTEM", "part 1"),
                           PartRow(2, 2, NULL, 1, "IN_SYSTEM", "part 2")}
    /\ nextPartId = 3
    /\ pricing_config = {}
    /\ alloc = [s \in Slots |-> NoAlloc]
    /\ accounts = {}
    /\ ledger = {}
    /\ inventory_layers = {}
    /\ nextAccountId = 1
    /\ nextEntryId = 1
    /\ nextLayerId = 1
    /\ nextUuid = 1
    /\ req = [s \in Slots |-> NoReq]
    /\ txn = [s \in Slots |-> NoTxn]
    /\ response = [op |-> "none", status |-> 0]
    /\ started = 0

\* requests served one after another: a request starts when no other is in flight
NextPartsSequential ==
    \/ \E s \in Slots, u \in Users, part_id \in PartIds, project_id \in ProjectIds,
          requested_qty \in RequestedQuantities, staged \in BOOLEAN :
          /\ \A t \in Slots : alloc[t].pc = "idle"
          /\ AllocateSelect(s, u, part_id, project_id, requested_qty, staged)
    \/ \E s \in Slots : AllocateWrite(s)
    \/ \E s \in Slots : AllocateError(s)

SpecPartsSequential == InitParts /\ [][NextPartsSequential]_vars

\* requests served by threads of the server, each on its own connection
NextParts ==
    \/ \E s \in Slots, u \in Users, part_id \in PartIds, project_id \in ProjectIds,
          requested_qty \in RequestedQuantities, staged \in BOOLEAN :
          AllocateSelect(s, u, part_id, project_id, requested_qty, staged)
    \/ \E s \in Slots : AllocateWrite(s)
    \/ \E s \in Slots : AllocateError(s)

SpecParts == InitParts /\ [][NextParts]_vars

\* ------------------------------------------------------------- properties
TransactionIds == {e.transaction_uuid : e \in ledger}
EntriesOf(t) == {e \in ledger : e.transaction_uuid = t}

\* no account was made by create_account: only postings built the state
OnlySystemAccounts == \A a \in accounts : a.is_system

\* C1: for every transaction_uuid present in the ledger the debits of its
\* entries sum to the credits of its entries, within 0.01
C1_BalanceInvariant ==
    \A t \in TransactionIds :
        Abs(SumDebit(EntriesOf(t)) - SumCredit(EntriesOf(t))) <= Tolerance

\* a reversal outlives the contribution it reverses, which delete_item removed
C1_Witness ==
    /\ response = [op |-> "delete_item", status |-> 200]
    /\ \E e \in ledger : e.reference_type = "REVERSAL" /\ e.debit > Tolerance
    /\ \A e \in ledger : e.reference_type = "REVERSAL"

\* C2: an entry of the ledger stays in the ledger, unchanged, in every later state
C2_AppendOnly == [][\A e \in ledger : e \in ledger']_vars

\* C3: after postings only, trial_balance reports total_debits = total_credits
\* and is_balanced
C3_TrialBalanceIdentity ==
    OnlySystemAccounts =>
        \A u \in Users :
            /\ get_trial_balance(u).total_debits = get_trial_balance(u).total_credits
            /\ get_trial_balance(u).is_balanced

Responds(s, op, code) ==
    /\ req[s].op = op
    /\ req'[s].pc = "idle"
    /\ response' = [op |-> op, status |-> code]

C6_NoTornTransaction ==
    /\ \A s \in Slots :
          req[s].pc # "idle" =>
              \A e \in ledger :
                  req[s].transaction_uuid = NULL
                  \/ e.transaction_uuid # req[s].transaction_uuid
    /\ \A t \in TransactionIds :
          /\ Cardinality(EntriesOf(t)) >= 2
          /\ SumDebit(EntriesOf(t)) = SumCredit(EntriesOf(t))

\* two postings of one owner are in flight, each with one entry written, while
\* the ledger already holds a committed transaction
C6_Witness ==
    /\ ledger # {}
    /\ \A s \in Slots :
          /\ req[s].op = "add_item"
          /\ req[s].pc = "credit"
          /\ req[s].user_id = 1
          /\ Cardinality(txn[s].wLedger) = 1

\* C7: capital contributions alone leave every owner with at most one
\* ASSET/INVENTORY account and at most one EQUITY/OWNER_CAPITAL account
C7_SystemAccountsUnique ==
    OnlySystemAccounts =>
        \A u \in Users :
            /\ Cardinality(SystemAccountMatches(u, "ASSET", "INVENTORY")) <= 1
            /\ Cardinality(SystemAccountMatches(u, "EQUITY", "OWNER_CAPITAL")) <= 1

\* C8: create_account and deactivate_account alone never leave an owner with
\* two active accounts of the same name
C8_ActiveNamesUnique ==
    (\A a \in accounts : ~a.is_system) =>
        \A a, b \in accounts :
            (/\ a.user_id = b.user_id
             /\ a.account_name = b.account_name
             /\ a.is_active /\ b.is_active) => a = b

Range(seq) == {seq[k] : k \in 1..Len(seq)}

\* C9: reverse_transaction adds exactly one entry per entry it fetched for the
\* transaction, all under one fresh transaction_uuid: same account, debit and
\* credit swapped, description prefixed "REVERSAL:", reference_type REVERSAL,
\* reference_id the original entry_id; nothing else changes
C9_ReversalMirrorsOriginal ==
    [][\A s \in Slots :
          Responds(s, "reverse_transaction", 200) =>
              LET new == ledger' \ ledger
                  entries == req[s].entries
              IN /\ ledger \subseteq ledger'
                 /\ Cardinality(new) = Len(entries)
                 /\ Len(entries) >= 2
                 /\ Cardinality({n.transaction_uuid : n \in new}) = 1
                 /\ \A n \in new :
                       /\ n.transaction_uuid \notin TransactionIds
                       /\ n.transaction_uuid \notin
                              {e.transaction_uuid : e \in Range(entries)}
                 /\ \A e \in Range(entries) :
                       Cardinality({n \in new :
                           /\ n.reference_id = e.entry_id
                           /\ n.reference_type = "REVERSAL"
                           /\ n.account_id = e.account_id
                           /\ n.debit = e.credit
                           /\ n.credit = e.debit
                           /\ n.description = <<"REVERSAL:">> \o e.description}) = 1
                 /\ accounts' = accounts
                 /\ inventory_layers' = inventory_layers]_vars

\* a reversal of a reversal was committed
C9_Witness ==
    /\ response = [op |-> "reverse_transaction", status |-> 200]
    /\ \E e \in ledger :
          /\ e.reference_type = "REVERSAL"
          /\ e.description = <<"REVERSAL:", "REVERSAL:">> \o ContributionDescription
          /\ e.debit > 0

\* the reversing entries of transaction t, and the entries they refer to
IsReversal(t) == \A e \in EntriesOf(t) : e.reference_type = "REVERSAL"
Reversed(t) == {e \in ledger : \E r \in EntriesOf(t) : r.reference_id = e.entry_id}

\* C10: a transaction and its reversal together leave every account balance
\* where it was; a ledger holding one contribution and its reversal shows
\* assets = 0 and equity = 0
C10_ReversalCancels ==
    /\ \A t \in TransactionIds :
          (IsReversal(t) /\ Cardinality(Reversed(t)) = Cardinality(EntriesOf(t))) =>
              \A a \in accounts :
                  NetDebit({e \in EntriesOf(t) \cup Reversed(t) :
                               e.account_id = a.account_id}) = 0
    /\ \A t \in TransactionIds :
          (IsReversal(t) /\ ledger = EntriesOf(t) \cup Reversed(t)
           /\ Cardinality(ledger) = 4) =>
              \A u \in Users : /\ get_accounting_equation(u).assets = 0
                               /\ get_accounting_equation(u).equity = 0

\* a contribution of 2 cents on an empty ledger, then its reversal
C10_Witness ==
    /\ response = [op |-> "reverse_transaction", status |-> 200]
    /\ started = 2
    /\ Cardinality(ledger) = 4
    /\ \E e \in ledger : e.reference_type = "CAPITAL_CONTRIBUTION" /\ e.debit = 2
    /\ \E t \in TransactionIds : IsReversal(t) /\ ledger = EntriesOf(t) \cup Reversed(t)

\* the owner of the account an entry is posted to
OwnerOf(e) == (CHOOSE a \in accounts : a.account_id = e.account_id).user_id

\* the request of slot s ended in this step without a trace in the database
Rejected(s, op, code) ==
    /\ response' = [op |-> op, status |-> code]
    /\ req'[s] = NoReq
    /\ txn' = txn
    /\ ledger' = ledger
    /\ accounts' = accounts
    /\ inventory_layers' = inventory_layers
    /\ nextEntryId' = nextEntryId

\* C11: reverse_transaction answers 404 when no entry carries the transaction
\* id and 403 when the entries are on accounts of another owner; in both cases
\* nothing is written: the ledger is the ledger before the call
C11_ReverseErrors ==
    [][\A s \in Slots, u \in Users, t \in 1..nextUuid :
          ReverseSelect(s, u, t) =>
              /\ EntriesOf(t) = {} => Rejected(s, "reverse_transaction", 404)
              /\ (EntriesOf(t) # {} /\ \A e \in EntriesOf(t) : OwnerOf(e) # u) =>
                    Rejected(s, "reverse_transaction", 403)]_vars

\* owner 2 asked to reverse the contribution of owner 1
C11_Witness ==
    /\ response = [op |-> "reverse_transaction", status |-> 403]
    /\ started = 2
    /\ Cardinality(ledger) = 2
    /\ \A e \in ledger : OwnerOf(e) = 1

\* the reversals of transaction t: the transactions whose entries all refer to
\* entries of t
DirectReversals(t) ==
    {r \in TransactionIds \ {t} :
        /\ IsReversal(r)
        /\ \A e \in EntriesOf(r) : \E o \in EntriesOf(t) : e.reference_id = o.entry_id}

\* t together with its k reversals moves every account by (1 - k) times what t
\* alone moves it
NetAfterReversals ==
    \A t \in TransactionIds, a \in accounts :
        LET k == Cardinality(DirectReversals(t))
            all == EntriesOf(t) \cup UNION {EntriesOf(r) : r \in DirectReversals(t)}
        IN NetDebit({e \in all : e.account_id = a.account_id})
             = (1 - k) * NetDebit({e \in EntriesOf(t) : e.account_id = a.account_id})

\* C12: reverse_transaction does not look for earlier reversals: called by the
\* owner on any transaction in the ledger, reversed before or not, it goes on to
\* insert a reversing entry for every entry of the transaction, and after k
\* reversals of t the net effect on each account is (1 - k) times t's effect
C12_DoubleReversal ==
    [][/\ \A s \in Slots, u \in Users, t \in 1..nextUuid :
             (/\ ReverseSelect(s, u, t)
              /\ EntriesOf(t) # {}
              /\ \A e \in EntriesOf(t) : OwnerOf(e) = u) =>
                 /\ req'[s].pc = "insert"
                 /\ {e.entry_id : e \in Range(req'[s].entries)}
                       = {e.entry_id : e \in EntriesOf(t)}
       /\ NetAfterReversals']_vars

\* a contribution was reversed twice: its account balances are minus the
\* contribution
C12_Witness ==
    \E t \in TransactionIds :
        /\ Cardinality(DirectReversals(t)) = 2
        /\ \E e \in EntriesOf(t) : e.debit = 50000 /\ balance(e.account_id) = 0 - 50000

SystemAccountsActive == \A a \in accounts : a.is_system => a.is_active

\* C13: deactivate_account answers 404 for an account that is absent or
\* another owner's and 400 for a system account, changing nothing; on success
\* the only change is is_active = FALSE on that account, the ledger is the
\* ledger before; so every system account is active in every state
C13_DeactivateAccount ==
    [][/\ \A s \in Slots, u \in Users, id \in 1..nextAccountId :
             DeleteAccountSelect(s, u, id) =>
                 /\ (~\E a \in accounts : a.account_id = id /\ a.user_id = u) =>
                       Rejected(s, "delete_account", 404)
                 /\ (\E a \in accounts : a.account_id = id /\ a.user_id = u
                                                             /\ a.is_system) =>
                       Rejected(s, "delete_account", 400)
       /\ \A s \in Slots :
             Responds(s, "delete_account", 200) =>
                 /\ ledger' = ledger
                 /\ inventory_layers' = inventory_layers
                 /\ accounts' = {IF a.account_id = req[s].account_id
                                    THEN [a EXCEPT !.is_active = FALSE] ELSE a
                                 : a \in accounts}
       /\ SystemAccountsActive']_vars

\* an account that carries the debit of a contribution was deactivated: its
\* entry is still in the ledger, next to an active system account
C13_Witness ==
    /\ response = [op |-> "delete_account", status |-> 200]
    /\ \E a \in accounts : /\ ~a.is_active
                            /\ \E e \in ledger : e.account_id = a.account_id
    /\ \E a \in accounts : a.is_system /\ a.is_active

\* C14: create_account with a type outside the five account types, or with a
\* name an active account of the owner has, answers 400 and leaves the accounts
\* as they were; with a valid type and a name no active account of the owner has
\* (held by a deactivated one or not) it goes on, and its success adds exactly
\* one account, non-system and active
C14_CreateAccount ==
    [][/\ \A s \in Slots, u \in Users, n \in AccountNames, t \in AccountTypes,
             st \in Subtypes :
             CreateAccountCheck(s, u, n, t, st) =>
                 LET held == \E a \in accounts : /\ a.user_id = u
                                                  /\ a.account_name = n
                                                  /\ a.is_active
                 IN /\ (t \notin {"ASSET", "LIABILITY", "EQUITY", "REVENUE", "EXPENSE"}
                         \/ held) =>
                          /\ Rejected(s, "create_account", 400)
                          /\ nextAccountId' = nextAccountId
                    /\ (t \in {"ASSET", "LIABILITY", "EQUITY", "REVENUE", "EXPENSE"}
                         /\ n # "" /\ ~held) =>
                          req'[s].pc = "commit"
       /\ \A s \in Slots :
             Responds(s, "create_account", 201) =>
                 /\ accounts \subseteq accounts'
                 /\ Cardinality(accounts' \ accounts) = 1
                 /\ \A a \in accounts' \ accounts :
                       /\ ~a.is_system
                       /\ a.is_active
                       /\ a.user_id = req[s].user_id
                       /\ a.account_id = req[s].account_id
                 /\ ledger' = ledger]_vars

\* a name was created and deactivated, and is being created again: the new
\* row waits for its commit
C14_Witness ==
    /\ req[1].op = "create_account" /\ req[1].pc = "commit"
    /\ Free(2)
    /\ \E a \in accounts, b \in txn[1].wAccounts :
          /\ a.user_id = b.user_id
          /\ a.account_name = b.account_name
          /\ ~a.is_active
          /\ a.account_id < b.account_id

\* the accounts get_or_create_system_accounts resolves for owner u
AccountsOfKind(A, u, account_type, subtype) ==
    {a.account_id : a \in {x \in A : /\ x.user_id = u
                                     /\ x.account_type = account_type
                                     /\ x.subtype = subtype}}

C17_AmountsNonNegative == \A e \in ledger : e.debit >= 0 /\ e.credit >= 0

\* a reversal of a reversal, with a positive debit, is in the ledger next to a
\* credit of 500.00
C17_Witness ==
    /\ \E e \in ledger : /\ e.reference_type = "REVERSAL"
                          /\ e.description[2] = "REVERSAL:"
                          /\ e.debit > 0
    /\ \E e \in ledger : e.credit = 50000

ReadOps == {"get_accounting_equation", "get_ledger", "get_trial_balance",
            "get_balance_sheet"}

TypeNet(u, account_type) ==
    LET A == {a \in accounts : a.user_id = u /\ a.account_type = account_type}
    IN SumF([a \in A |->
                SumDebit({e \in ledger : e.account_id = a.account_id})
                - SumCredit({e \in ledger : e.account_id = a.account_id})], A)

\* C19: accounting_equation returns assets = sum of debit - credit over the
\* owner's ASSET accounts, liabilities and equity = sum of credit - debit over
\* the LIABILITY and the EQUITY accounts, difference = assets - (liabilities +
\* equity), is_balanced exactly when |difference| < 0.01; entries on REVENUE and
\* EXPENSE accounts enter none of the totals
C19_AccountingEquationFormula ==
    (response.op = "get_accounting_equation" /\ response.status = 200) =>
        LET u == response.user_id
            b == response.body
        IN /\ b.assets = TypeNet(u, "ASSET")
           /\ b.liabilities = 0 - TypeNet(u, "LIABILITY")
           /\ b.equity = 0 - TypeNet(u, "EQUITY")
           /\ b.difference = b.assets - (b.liabilities + b.equity)
           /\ b.is_balanced <=> (Abs(b.difference) < 1)

\* the equation of owner 1 balances at 500.00 although revenue and expense
\* accounts carry entries
C19_Witness ==
    /\ response.op = "get_accounting_equation"
    /\ response.status = 200
    /\ response.user_id = 1
    /\ response.body.assets = 50000
    /\ response.body.is_balanced
    /\ \E e \in ledger : e.account_id = 4
    /\ \E e \in ledger : e.account_id = 5

\* the columns of the listed accounts: neither negative, exactly one of them
\* not zero, and that one is |balance|
ColumnsSplitBalance(rows) ==
    \A r \in rows :
        /\ r.debit >= 0 /\ r.credit >= 0
        /\ (r.debit = 0) # (r.credit = 0)
        /\ r.debit + r.credit = Abs(balance(r.account_id))

\* C20: trial_balance lists exactly the accounts of the owner whose |balance|
\* is above 0.01, each with a debit and a credit column that are >= 0, exactly
\* one of them non-zero and equal to |balance|; total_debits and total_credits
\* are the sums of the columns
C20_TrialBalanceRows ==
    \A u \in Users :
        LET tb == get_trial_balance(u)
        IN /\ {r.account_id : r \in tb.accounts}
                = {a.account_id : a \in {x \in accounts :
                                            /\ x.user_id = u
                                            /\ Abs(balance(x.account_id)) > 1}}
           /\ ColumnsSplitBalance(tb.accounts)
           /\ tb.total_debits = SumF([r \in tb.accounts |-> r.debit], tb.accounts)
           /\ tb.total_credits = SumF([r \in tb.accounts |-> r.credit], tb.accounts)

\* what belongs to owner u and what u's reads return
OwnerView(u) ==
    <<{a \in accounts : a.user_id = u},
      {e \in ledger : e.user_id = u \/ OwnerOf(e) = u},
      {l \in inventory_layers : l.user_id = u},
      get_ledger(u, 100, 0),
      get_accounting_equation(u),
      get_trial_balance(u),
      get_balance_sheet(u)>>

\* the owner on whose behalf slot s takes this step
Actor(s) == IF req[s].user_id # NULL THEN req[s].user_id ELSE req'[s].user_id

StoredInRange ==
    \A r \in pricing_config :
        /\ r.config_value.kind = "num"
        /\ r.config_value.n >= 0
        /\ r.config_key \in percentage_keys => r.config_value.n <= One

\* the request body of the last update holds an unknown key or a value outside
\* the range of its option
BadBody(data) ==
    \/ DOMAIN data \ valid_keys # {}
    \/ \E k \in DOMAIN data \cap valid_keys :
          ~(/\ data[k].kind = "num"
            /\ data[k].n >= 0
            /\ k \in percentage_keys => data[k].n <= One)

\* C22: after registration and any sequence of update_pricing_config calls every
\* stored percentage option is in [0,1] and every stored amount option is >= 0,
\* and an update with an unknown key or an out-of-range value answers 400 and
\* leaves every option as it was.
C22_PricingConfigRanges ==
    [][/\ StoredInRange'
       /\ \A u \in Users, data \in Bodies :
             (update_pricing_config(u, data) /\ BadBody(data))
                => (response'.status = 400 /\ pricing_config' = pricing_config)]_vars

\* ---------------------------------------------------------------- C23
ZeroBreakdown == Breakdown(0, 0, 0, 0, 0, 0, 0, 0, 0)

\* C23: calculate_fees with a price that is None, zero or negative returns a
\* breakdown whose every field is 0, for every config and weight class.
C23_NonPositivePriceIsZero ==
    (/\ response.op = "calculate_fees"
     /\ (response.body.price = None \/ response.body.price.n <= 0))
       => response.body.breakdown = ZeroBreakdown

\* a call with price 0 and weight class heavy under a config whose fixed fee is
\* not the default and whose final value fee is NULL has answered all zeros
C23_Witness ==
    /\ response.op = "calculate_fees"
    /\ response.user_id = 1
    /\ response.body.price = Num(0)
    /\ response.body.weight_class = "heavy"
    /\ response.body.breakdown = ZeroBreakdown
    /\ ConfigRow(1, "ebay_payment_fixed", Num(2500)) \in pricing_config
    /\ ConfigRow(1, "ebay_final_value_fee", SqlNull) \in pricing_config

\* ---------------------------------------------------------------- C24
\* the entries add_item posted for a layer
LayerEntries(layer_id) ==
    {e \in ledger : e.reference_type = "CAPITAL_CONTRIBUTION" /\ e.reference_id = layer_id}

\* every layer has the two entries of its add_item: a debit and a credit of
\* quantity x unit_cost in one transaction of the layer's owner
LayersCarryTheirEntries ==
    \A l \in inventory_layers :
        /\ Cardinality(LayerEntries(l.layer_id)) = 2
        /\ \E d, c \in LayerEntries(l.layer_id) :
              /\ d.debit = l.quantity_remaining * l.unit_cost /\ d.credit = 0
              /\ c.credit = l.quantity_remaining * l.unit_cost /\ c.debit = 0
              /\ d.transaction_uuid = c.transaction_uuid
              /\ d.user_id = l.user_id /\ c.user_id = l.user_id

\* C24: delete_item undoes add_item: a layer always has the two entries its
\* add_item posted, and deleting the layer removes it together with exactly
\* these entries, so every account balance loses what the add_item put on it;
\* delete_item on a layer that is absent or of another owner answers 404 and
\* changes nothing.
C24_DeleteUndoesAdd ==
    [][/\ LayersCarryTheirEntries'
       /\ \A s \in Slots :
             (DeleteItemCommit(s) /\ \E l \in inventory_layers : l.layer_id = req[s].layer_id)
                => /\ inventory_layers' =
                         {l \in inventory_layers : l.layer_id # req[s].layer_id}
                   /\ ledger' = ledger \ LayerEntries(req[s].layer_id)
                   /\ accounts' = accounts
                   /\ \A a \in accounts :
                         balance(a.account_id)' = balance(a.account_id) -
                            NetDebit({e \in LayerEntries(req[s].layer_id) :
                                         e.account_id = a.account_id})
                   /\ response'.status = 200
       /\ \A s \in Slots, u \in Users, layer_id \in 1..nextLayerId :
             (/\ DeleteItemSelect(s, u, layer_id)
              /\ ~\E l \in inventory_layers : l.layer_id = layer_id /\ l.user_id = u)
                => Rejected(s, "delete_item", 404)]_vars

\* owner 1 added an item and deleted its layer: no layer, no entry and every
\* balance back at zero; then owner 2 asked for the same layer and got 404
C24_Witness ==
    /\ response = [op |-> "delete_item", status |-> 404]
    /\ nextLayerId = 2
    /\ nextEntryId = 3
    /\ inventory_layers = {}
    /\ ledger = {}
    /\ \A a \in accounts : balance(a.account_id) = 0
    /\ accounts # {}

\* ---------------------------------------------------------------- C25
\* the rows that stem from one loose part: the part and the rows split from it
RowsOf(custom_name) == {r \in project_parts : r.custom_name = custom_name}

\* the pieces of a part: the sum of the quantities of its rows
Pieces(custom_name) ==
    SumF([r \in RowsOf(custom_name) |-> r.quantity], RowsOf(custom_name))

LooseRow(u, part_id) ==
    {r \in project_parts : r.part_id = part_id /\ r.project_id = NULL /\ r.user_id = u}

\* C25: with requests served one after another, allocating q of a loose part
\* with n pieces conserves quantity: for 1 <= q < n the loose row keeps n - q
\* and one new row with q is created in the project, for q = n the row itself
\* moves to the project, and the rows sum to n in both cases; q < 1 or q > n is
\* answered 400 and no row changes.
C25_AllocateConserves ==
    [][/\ \A s \in Slots :
             AllocateWrite(s) =>
                \E r \in LooseRow(alloc[s].user_id, alloc[s].part_id) :
                   LET n == r.quantity
                       q == alloc[s].allocate_qty
                       moved == [r EXCEPT !.project_id = alloc[s].project_id,
                                          !.status = alloc[s].new_status]
                       created == project_parts' \ project_parts
                   IN /\ 1 <= q /\ q <= n
                      /\ q = n => project_parts' = (project_parts \ {r}) \cup {moved}
                      /\ q < n =>
                            /\ [r EXCEPT !.quantity = n - q] \in project_parts'
                            /\ \E c \in created :
                                  /\ c.quantity = q
                                  /\ c.project_id = alloc[s].project_id
                                  /\ c.part_id \notin {x.part_id : x \in project_parts}
                                  /\ created = {c, [r EXCEPT !.quantity = n - q]}
                            /\ project_parts \ project_parts' = {r}
                      /\ Pieces(r.custom_name)' = Pieces(r.custom_name)
       /\ \A s \in Slots, u \in Users, part_id \in PartIds, project_id \in ProjectIds \ {NULL},
             q \in 0..(MaxQuantity + 1), staged \in BOOLEAN :
             (/\ AllocateSelect(s, u, part_id, project_id, Num(q), staged)
              /\ \E r \in LooseRow(u, part_id) : q < 1 \/ q > r.quantity)
                => /\ response'.status = 400
                   /\ UNCHANGED <<project_parts, alloc, nextPartId>>]_vars

\* one of three pieces of part 1 was allocated to project 2 as staged: the
\* loose row keeps two and the new row 3 holds one
C25_Witness ==
    /\ response = BackendResponse("allocate_part_to_project", 1, 200, <<>>)
    /\ PartRow(1, 1, NULL, 2, "IN_SYSTEM", "part 1") \in project_parts
    /\ PartRow(3, 1, 2, 1, "STAGED", "part 1") \in project_parts
    /\ Pieces("part 1") = 3

\* ---------------------------------------------------------------- C30
PartNames == {r.custom_name : r \in project_parts}

\* C30: under any interleaving of two concurrent allocate requests on the same
\* loose part the quantities of the loose row and of the rows allocated from it
\* sum to the part's original quantity: no step changes the pieces of a part.
C30_ConcurrentAllocateConserves ==
    [][\A name \in PartNames : Pieces(name)' = Pieces(name)]_vars

\* ---------------------------------------------------------------- C26
\* debit minus credit over the owner's inventory asset accounts
InventoryBalance(u) ==
    NetDebit({e \in ledger :
                 \E a \in accounts : /\ a.account_id = e.account_id
                                     /\ a.user_id = u
                                     /\ a.account_type = "ASSET"
                                     /\ a.subtype = "INVENTORY"})

\* quantity x unit_cost over the owner's capital-contribution layers
LayersValue(u) ==
    LET L == {l \in inventory_layers :
                 l.user_id = u /\ l.reference_type = "CAPITAL_CONTRIBUTION"}
    IN SumF([l \in L |-> l.quantity_remaining * l.unit_cost], L)

\* C26: in every reachable state the balance of the owner's Inventory Asset
\* account equals the sum of quantity x unit_cost over the owner's existing
\* capital-contribution layers.
C26_InventoryMatchesLayers ==
    \A u \in Users : InventoryBalance(u) = LayersValue(u)

\* ---------------------------------------------------------------- C27
\* C27: in every reachable state each ledger entry with reference_type REVERSAL
\* has a reference_id that is the id of an entry still present in the ledger.
C27_ReversalKeepsItsOriginal ==
    \A e \in ledger :
        e.reference_type = "REVERSAL" =>
            \E o \in ledger : o.entry_id = e.reference_id

\* ---------------------------------------------------------------- C28
\* C28: deactivate_account never unbalances the trial balance: when the trial
\* balance of the owner is balanced before a successful deactivation it is
\* balanced after it.
C28_DeactivationKeepsBalance ==
    [][\A s \in Slots, w \in Users :
          (/\ DeleteAccountCommit(s)
           /\ req[s].user_id = w
           /\ get_trial_balance(w).is_balanced)
             => get_trial_balance(w)'.is_balanced]_vars

\* ---------------------------------------------------------------- C29
\* C29: in every reachable ledger state balance_sheet and accounting_equation
\* agree: total_assets, total_liabilities and total_equity of the balance sheet
\* equal assets, liabilities and equity of the accounting equation, and both
\* report the same is_balanced.
C29_StatementsAgree ==
    \A u \in Users :
        /\ get_balance_sheet(u).total_assets = get_accounting_equation(u).assets
        /\ get_balance_sheet(u).total_liabilities = get_accounting_equation(u).liabilities
        /\ get_balance_sheet(u).total_equity = get_accounting_equation(u).equity
        /\ get_balance_sheet(u).is_balanced = get_accounting_equation(u).is_balanced

====
